---------------------------- MODULE Spec2Model ----------------------------
(***************************************************************************)
(* Model of control_and_cleanup.py: the OpenStack start/stop orchestration *)
(* and the Kubernetes duplicate-pod reconciler.                            *)
(*                                                                         *)
(* Strings of the program whose characters matter (pod names, namespaces,  *)
(* server names, group keys) are sequences of one-character strings.       *)
(***************************************************************************)
EXTENDS Integers, Sequences, FiniteSets, TLC

\* ------------------------------------------------------------------------
\* Bounds of the model
\* ------------------------------------------------------------------------

\* Longest enumerated pod name given to get_base_name.
MaxNameLen == 7

\* Most pods in an enumerated cluster.
MaxPods == 3

\* Most seconds the clock advances during a run of the reconciler.
MaxTicks == 1

\* Most servers in the cloud.
MaxServers == 2

\* Most pods that others remove during a run of the reconciler.
MaxRemovals == 1

\* ------------------------------------------------------------------------
\* Strings
\* ------------------------------------------------------------------------

None == "None"

LowerLetters ==
    {"a", "b", "c", "d", "e", "f", "g", "h", "i", "j", "k", "l", "m",
     "n", "o", "p", "q", "r", "s", "t", "u", "v", "w", "x", "y", "z"}

Digits == {"0", "1", "2", "3", "4", "5", "6", "7", "8", "9"}

\* The characters the enumerated names are built from: a lowercase letter, a
\* digit, a character outside [a-z0-9], the separator and a newline.
NameAlphabet == {"a", "7", "X", "-", "\n"}

\* All sequences over S of length at most n.
SeqsUpTo(S, n) == UNION {[1..k -> S] : k \in 0..n}

IsPrefix(p, s) == Len(p) <= Len(s) /\ SubSeq(s, 1, Len(p)) = p

\* Python's `a in b` on strings.
Contains(b, a) ==
    \E i \in 0..(Len(b) - Len(a)) : SubSeq(b, i + 1, i + Len(a)) = a

\* str.split(sep) with a one-character separator.
RECURSIVE split(_, _)
split(s, sep) ==
    IF \A i \in 1..Len(s) : s[i] # sep
    THEN <<s>>
    ELSE LET i == CHOOSE j \in 1..Len(s) :
                      s[j] = sep /\ \A k \in 1..(j - 1) : s[k] # sep
         IN  <<SubSeq(s, 1, i - 1)>> \o split(SubSeq(s, i + 1, Len(s)), sep)

\* re.match(r'^[a-z0-9]+$', part): one or more of [a-z0-9] up to the end of
\* the string; Python's `$` also matches just before one final newline.
MatchLowerAlnum(part) ==
    LET body == IF Len(part) > 0 /\ part[Len(part)] = "\n"
                THEN SubSeq(part, 1, Len(part) - 1)
                ELSE part
    IN  /\ Len(body) > 0
        /\ \A i \in 1..Len(body) : body[i] \in LowerLetters \cup Digits

\* The threshold of `len(parts[i]) < 4`.
SuffixMinLen == 4

\* The test of the loop body of get_base_name: the part is appended.
KeepsPart_Len5(part) == Len(part) < SuffixMinLen + 1 \/ ~MatchLowerAlnum(part)

KeepsPart(part) == Len(part) < SuffixMinLen \/ ~MatchLowerAlnum(part)

\* The loop of get_base_name that skips a suffix-like part and goes on.
RECURSIVE BaseLoop_Continue(_, _, _)
BaseLoop_Continue(parts, i, base) ==
    IF i > Len(parts) THEN base
    ELSE IF KeepsPart(parts[i])
         THEN BaseLoop_Continue(parts, i + 1, base \o <<"-">> \o parts[i])
         ELSE BaseLoop_Continue(parts, i + 1, base)

\* for i in range(1, len(parts)): append parts[i], or break.
RECURSIVE BaseLoop(_, _, _)
BaseLoop(parts, i, base) ==
    IF i > Len(parts) THEN base
    ELSE IF KeepsPart(parts[i])
         THEN BaseLoop(parts, i + 1, base \o <<"-">> \o parts[i])
         ELSE base

\* A derivation that tests the first part like the later ones, and returns
\* it alone when it looks like a random string.
get_base_name_TestsFirst(pod_name) ==
    LET parts == split(pod_name, "-")
    IN  IF KeepsPart(parts[1]) THEN BaseLoop(parts, 2, parts[1])
        ELSE parts[1]

get_base_name(pod_name) ==
    LET parts == split(pod_name, "-")
    IN  BaseLoop(parts, 2, parts[1])

\* ------------------------------------------------------------------------
\* Named pod names
\* ------------------------------------------------------------------------

\* "myapp-deployment-abc1"
MyappDeploymentAbc1 ==
    <<"m", "y", "a", "p", "p", "-",
      "d", "e", "p", "l", "o", "y", "m", "e", "n", "t", "-",
      "a", "b", "c", "1">>

\* "myapp-deployment"
MyappDeployment ==
    <<"m", "y", "a", "p", "p", "-",
      "d", "e", "p", "l", "o", "y", "m", "e", "n", "t">>

\* "worker-7f8c9d-x2"
Worker7f8c9dX2 ==
    <<"w", "o", "r", "k", "e", "r", "-",
      "7", "f", "8", "c", "9", "d", "-", "x", "2">>

\* "db-0-x2-7f8c9d-x2"
Db0X27f8c9dX2 ==
    <<"d", "b", "-", "0", "-", "x", "2", "-",
      "7", "f", "8", "c", "9", "d", "-", "x", "2">>

\* "x2-My-App-ab1-abcd-ef"
X2MyAppAb1AbcdEf ==
    <<"x", "2", "-", "M", "y", "-", "A", "p", "p", "-", "a", "b", "1", "-",
      "a", "b", "c", "d", "-", "e", "f">>

\* "a7f8-x2-7f8c9d"
A7f8X27f8c9d ==
    <<"a", "7", "f", "8", "-", "x", "2", "-", "7", "f", "8", "c", "9", "d">>

NamedPodNames ==
    {MyappDeploymentAbc1, MyappDeployment, Worker7f8c9dX2, Db0X27f8c9dX2,
     X2MyAppAb1AbcdEf, A7f8X27f8c9d}

PodNameInputs == SeqsUpTo(NameAlphabet, MaxNameLen) \cup NamedPodNames


\* ------------------------------------------------------------------------
\* Cluster data
\* ------------------------------------------------------------------------

\* Namespace names "n1", "n2".
N1 == <<"n", "1">>
N2 == <<"n", "2">>

\* Values of NAMESPACES: two namespaces, and one namespace repeated.
NamespaceLists == {<<N1, N2>>, <<N1, N1>>}

\* Workload names "svc", "api".
Svc == <<"s", "v", "c">>
Api == <<"a", "p", "i">>

\* Generated 5-character suffixes, one per pod slot.
PodSuffix ==
    <<  <<"x", "2", "k", "q", "4">>, <<"7", "f", "8", "c", "9">>,
        <<"b", "d", "5", "m", "z">>, <<"4", "h", "w", "t", "6">>,
        <<"p", "9", "r", "j", "n">>, <<"c", "v", "3", "g", "s">> >>

\* The name of the pod of a workload in slot k: "<workload>-<suffix k>".
PodName(workload, k) == workload \o <<"-">> \o PodSuffix[k]

HostIPs == {"10.0.0.1", "10.0.0.2", "10.0.0.3"}

\* Pod start times, in seconds: an earlier and a later one.
StartTimes == {1, 2}

\* A pod's status.start_time is <<t>>, or <<>> when it is not set; its
\* status.host_ip is an address, or None.
NoTime == <<>>

Pod(ns, name, st, ip) ==
    [namespace |-> ns, name |-> name, start_time |-> st, host_ip |-> ip]

Started == {<<t>> : t \in StartTimes}

\* What the status of a pod can be: started on a node, at every start time
\* and host IP, or without a start time, or without a host IP.
PodStatuses ==
    (Started \X HostIPs) \cup {<<NoTime, "10.0.0.1">>, << <<1>>, None>>}

\* Clusters of up to MaxPods pods of one workload in one namespace.
OneGroupClusters ==
    UNION {
        {[k \in 1..n |-> Pod(N1, PodName(Svc, k), a[k][1], a[k][2])] :
            a \in [1..n -> PodStatuses]}
        : n \in 0..MaxPods}

\* Clusters of up to MaxPods running pods spread over two workloads and two
\* namespaces.
Placements == {<<N1, Svc>>, <<N1, Api>>, <<N2, Svc>>}

SeveralGroupClusters ==
    UNION {
        {[k \in 1..n |-> Pod(g[k][1], PodName(g[k][2], k), a[k][1], a[k][2])] :
            g \in [1..n -> Placements],
            a \in [1..n -> {<< <<1>>, "10.0.0.1">>, << <<2>>, "10.0.0.2">>}]}
        : n \in 0..MaxPods}

\* Two pods of "svc" in n1 on two nodes, started at 1 and at 2 (the older A
\* and the younger B of the end-to-end scenario).
ScenarioTwoNodes ==
    << Pod(N1, PodName(Svc, 1), <<1>>, "10.0.0.1"),
       Pod(N1, PodName(Svc, 2), <<2>>, "10.0.0.2") >>

\* Three groups: "svc" in n1 on three nodes, "api" in n1 alone, "svc" in n2
\* twice on one node with equal start times.
ScenarioMixed ==
    << Pod(N1, PodName(Svc, 1), <<1>>, "10.0.0.1"),
       Pod(N2, PodName(Svc, 2), <<1>>, "10.0.0.1"),
       Pod(N1, PodName(Svc, 3), <<2>>, "10.0.0.2"),
       Pod(N1, PodName(Api, 4), <<2>>, "10.0.0.2"),
       Pod(N1, PodName(Svc, 5), <<1>>, "10.0.0.3"),
       Pod(N2, PodName(Svc, 6), <<1>>, "10.0.0.1") >>

\* Two duplicate groups, one per namespace.
ScenarioTwoDuplicates ==
    << Pod(N1, PodName(Svc, 1), <<1>>, "10.0.0.1"),
       Pod(N2, PodName(Svc, 2), <<2>>, "10.0.0.1"),
       Pod(N1, PodName(Svc, 3), <<2>>, "10.0.0.2"),
       Pod(N2, PodName(Svc, 4), <<1>>, "10.0.0.2") >>

\* Two duplicate groups in one namespace: "svc" twice and "api" twice.
ScenarioTwoWorkloads ==
    << Pod(N1, PodName(Svc, 1), <<1>>, "10.0.0.1"),
       Pod(N1, PodName(Api, 2), <<2>>, "10.0.0.1"),
       Pod(N1, PodName(Svc, 3), <<2>>, "10.0.0.2"),
       Pod(N1, PodName(Api, 4), <<1>>, "10.0.0.2") >>

\* Three pods of "svc" in n1 on two nodes, the first one the oldest.
ScenarioThreeOnTwoNodes ==
    << Pod(N1, PodName(Svc, 4), <<1>>, "10.0.0.1"),
       Pod(N1, PodName(Svc, 5), <<2>>, "10.0.0.2"),
       Pod(N1, PodName(Svc, 6), <<2>>, "10.0.0.1") >>

\* Two pods of "svc" in n1, of which only the first has a start time.
ScenarioOneStarted ==
    << Pod(N1, PodName(Svc, 1), <<1>>, "10.0.0.1"),
       Pod(N1, PodName(Svc, 2), NoTime, "10.0.0.1") >>

Clusters ==
    OneGroupClusters \cup SeveralGroupClusters
        \cup {ScenarioTwoNodes, ScenarioMixed, ScenarioTwoDuplicates,
              ScenarioTwoWorkloads}

\* ------------------------------------------------------------------------
\* cleanup_duplicate_pods: grouping and marking
\* ------------------------------------------------------------------------

\* v1.list_namespaced_pod(namespace=ns).items on the cluster c.
RECURSIVE PodsIn(_, _)
PodsIn(c, ns) ==
    IF c = <<>> THEN <<>>
    ELSE IF Head(c).namespace = ns
         THEN <<Head(c)>> \o PodsIn(Tail(c), ns)
         ELSE PodsIn(Tail(c), ns)

\* key = f"{ns}:{base_name}"
GroupKey(ns, base) == ns \o <<":">> \o base

\* pod_groups.setdefault(key, []).append(entry), on a dict kept as the
\* sequence of its (key, list) items in insertion order.
SetDefaultAppend(groups, key, entry) ==
    IF \E g \in 1..Len(groups) : groups[g][1] = key
    THEN [g \in 1..Len(groups) |->
            IF groups[g][1] = key
            THEN <<key, Append(groups[g][2], entry)>>
            ELSE groups[g]]
    ELSE Append(groups, <<key, <<entry>> >>)

\* A test that skips only the pods without a start time.
SkipsPod_OnlyNoTime(pod) == pod.start_time = NoTime

\* `if not pod.status.start_time or not pod.status.host_ip: continue`
SkipsPod(pod) == pod.start_time = NoTime \/ pod.host_ip = None

\* for pod in pods: the inner loop of the namespace loop, at time t.
RECURSIVE GroupPods(_, _, _, _)
GroupPods(groups, ns, pods, t) ==
    IF pods = <<>> THEN groups
    ELSE LET pod == Head(pods)
             entry == [namespace |-> ns,
                       name |-> pod.name,
                       node_ip |-> pod.host_ip,
                       age |-> t - pod.start_time[1]]
             key == GroupKey(ns, get_base_name(pod.name))
         IN  IF SkipsPod(pod)
             THEN GroupPods(groups, ns, Tail(pods), t)
             ELSE GroupPods(SetDefaultAppend(groups, key, entry), ns,
                            Tail(pods), t)

\* Inserting x behind every element whose age is at most x's.
RECURSIVE InsertByAge(_, _)
InsertByAge(sorted, x) ==
    IF sorted = <<>> THEN <<x>>
    ELSE IF Head(sorted).age <= x.age
         THEN <<Head(sorted)>> \o InsertByAge(Tail(sorted), x)
         ELSE <<x>> \o sorted

\* A sort by descending age.
RECURSIVE SortedByAge_Descending(_)
SortedByAge_Descending(pod_list) ==
    IF pod_list = <<>> THEN <<>>
    ELSE LET rest == SortedByAge_Descending(Tail(pod_list))
             x == Head(pod_list)
             older == {i \in 1..Len(rest) : rest[i].age > x.age}
             n == Cardinality(older)
         IN  SubSeq(rest, 1, n) \o <<x>> \o SubSeq(rest, n + 1, Len(rest))

\* sorted(pod_list, key=lambda x: x["age"]): ascending and stable.
RECURSIVE SortedByAge(_)
SortedByAge(pod_list) ==
    IF pod_list = <<>> THEN <<>>
    ELSE InsertByAge(SortedByAge(SubSeq(pod_list, 1, Len(pod_list) - 1)),
                     pod_list[Len(pod_list)])

\* node_ips = set(p["node_ip"] for p in pod_list)
NodeIPs(pod_list) == {pod_list[i].node_ip : i \in 1..Len(pod_list)}

\* The most distinct node IPs of a group of duplicates.
MaxDuplicateNodes == 2

\* A test that takes any group, also of one pod, as duplicates.
IsDuplicateGroup_AnySize(pod_list) ==
    Len(pod_list) >= 1 /\ Cardinality(NodeIPs(pod_list)) <= MaxDuplicateNodes

\* `if len(pod_list) > 1 and len(node_ips) <= 2`
IsDuplicateGroup(pod_list) ==
    Len(pod_list) > 1 /\ Cardinality(NodeIPs(pod_list)) <= MaxDuplicateNodes

\* A marking loop that marks every pod of a duplicate group.
RECURSIVE MarkPods_WholeGroup(_)
MarkPods_WholeGroup(groups) ==
    IF groups = <<>> THEN <<>>
    ELSE LET pod_list == Head(groups)[2]
         IN  IF IsDuplicateGroup(pod_list)
             THEN [k \in 1..Len(pod_list) |->
                     <<pod_list[k].namespace, pod_list[k].name>>]
                      \o MarkPods_WholeGroup(Tail(groups))
             ELSE MarkPods_WholeGroup(Tail(groups))

\* for group, pod_list in pod_groups.items(): the marking loop.
RECURSIVE MarkPods(_)
MarkPods(groups) ==
    IF groups = <<>> THEN <<>>
    ELSE LET pod_list == Head(groups)[2]
             to_delete == SortedByAge(pod_list)[1]
         IN  IF IsDuplicateGroup(pod_list)
             THEN << <<to_delete.namespace, to_delete.name>> >>
                      \o MarkPods(Tail(groups))
             ELSE MarkPods(Tail(groups))

\* The cluster without the pod `name` of namespace ns.
RECURSIVE WithoutPod(_, _, _)
WithoutPod(c, ns, name) ==
    IF c = <<>> THEN <<>>
    ELSE IF Head(c).namespace = ns /\ Head(c).name = name
         THEN WithoutPod(Tail(c), ns, name)
         ELSE <<Head(c)>> \o WithoutPod(Tail(c), ns, name)

HasPod(c, ns, name) ==
    \E i \in 1..Len(c) : c[i].namespace = ns /\ c[i].name = name

\* ------------------------------------------------------------------------
\* Cloud data
\* ------------------------------------------------------------------------

\* PARTIAL_SERVER_NAME, by default "node2".
PARTIAL_SERVER_NAME == <<"n", "o", "d", "e", "2">>

\* Server names "k8s-node2-a", "k8s-node1-a", "Node2".
K8sNode2A == <<"k", "8", "s", "-", "n", "o", "d", "e", "2", "-", "a">>
K8sNode1A == <<"k", "8", "s", "-", "n", "o", "d", "e", "1", "-", "a">>
UpperNode2 == <<"N", "o", "d", "e", "2">>

ServerNames == {K8sNode2A, K8sNode1A, UpperNode2}

\* Values of server.status in a listing or a poll.
ListedStatuses == {"SHUTOFF", "Shutoff", "ACTIVE"}
PolledStatuses == {"ACTIVE", "Active", "BUILD", "SHUTOFF"}

\* A comparison of statuses that keeps the case.
lower_Identity(status) == status

\* str.lower() on the status strings.
lower(status) ==
    CASE status \in {"SHUTOFF", "Shutoff", "shutoff"} -> "shutoff"
      [] status \in {"ACTIVE", "Active", "active"} -> "active"
      [] status \in {"BUILD", "build"} -> "build"

\* The clouds: up to MaxServers servers; a server's id is its index.
Clouds ==
    UNION {[1..n -> [name : ServerNames, status : ListedStatuses]] :
              n \in 0..MaxServers}

\* The command lines: sys.argv, with the script name first.
Script == "control_and_cleanup.py"

CommandLines ==
    {<<Script>>, <<Script, "start">>, <<Script, "stop">>,
     <<Script, "restart">>, <<Script, "Start">>, <<Script, "stop", "start">>}

\* server.addresses, as the address entries of its networks in order: no
\* entry, no fixed one, a fixed one of a node, a fixed one of no node.
Address(type, addr) == [type |-> type, addr |-> addr]

ServerAddresses ==
    { << >>,
      <<Address("floating", "80.1.1.1")>>,
      <<Address("floating", "80.1.1.1"), Address("fixed", "10.0.0.1"),
        Address("fixed", "10.0.0.9")>>,
      <<Address("fixed", "10.0.0.9")>> }

\* get_server_ip: the addr of the first entry of type 'fixed', or None.
RECURSIVE get_server_ip(_)
get_server_ip(addresses) ==
    IF addresses = <<>> THEN None
    ELSE IF Head(addresses).type = "fixed"
         THEN Head(addresses).addr
         ELSE get_server_ip(Tail(addresses))

\* The nodes of the cluster, with their addresses.
ClusterNodes ==
    << [name |-> "worker-a", addresses |-> <<"10.0.0.2", "worker-a">>],
       [name |-> "worker-b", addresses |-> <<"10.0.0.1", "worker-b">>] >>

\* What v1.read_node can give: the condition list of the node, or an error.
Condition(type, status) == [type |-> type, status |-> status]

NodeRead(raises, conditions) ==
    [polled |-> TRUE, raises |-> raises, conditions |-> conditions]

\* What get_server gave on one poll: it raised, or a server with a status.
ServerPoll(raises, status) ==
    [polled |-> TRUE, raises |-> raises, status |-> status]

ServerPolls ==
    {ServerPoll(FALSE, st) : st \in PolledStatuses} \cup
        {ServerPoll(TRUE, None)}

\* No poll was made.
NoPoll == [polled |-> FALSE]

NodeReads ==
    { NodeRead(FALSE, << >>),
      NodeRead(FALSE, <<Condition("MemoryPressure", "True")>>),
      NodeRead(FALSE, <<Condition("MemoryPressure", "False"),
                        Condition("Ready", "True")>>),
      NodeRead(FALSE, <<Condition("Ready", "False"),
                        Condition("MemoryPressure", "True")>>),
      NodeRead(FALSE, <<Condition("Ready", "Unknown")>>),
      NodeRead(TRUE, << >>) }

\* A listing that takes every server, whatever its name.
find_servers_All(cloud, partial_name, i) ==
    [k \in 1..(Len(cloud) - i + 1) |-> k + i - 1]

\* find_servers: the ids of the servers whose name contains partial_name, in
\* listing order.
RECURSIVE find_servers(_, _, _)
find_servers(cloud, partial_name, i) ==
    IF i > Len(cloud) THEN <<>>
    ELSE IF Contains(cloud[i].name, partial_name)
         THEN <<i>> \o find_servers(cloud, partial_name, i + 1)
         ELSE find_servers(cloud, partial_name, i + 1)

\* find_node_by_ip on a node list: the name of the first node with an address
\* equal to server_ip, or None.
RECURSIVE find_node_by_ip(_, _)
find_node_by_ip(nodes, server_ip) ==
    IF nodes = <<>> THEN None
    ELSE IF \E a \in 1..Len(Head(nodes).addresses) :
                Head(nodes).addresses[a] = server_ip
         THEN Head(nodes).name
         ELSE find_node_by_ip(Tail(nodes), server_ip)

\* is_node_ready on what read_node gave: the status of the first condition
\* of type "Ready" is "True"; no such condition, or an error, is not ready.
RECURSIVE ReadyCondition(_)
ReadyCondition(conditions) ==
    IF conditions = <<>> THEN FALSE
    ELSE IF Head(conditions).type = "Ready"
         THEN Head(conditions).status = "True"
         ELSE ReadyCondition(Tail(conditions))

\* A readiness check that takes a read that raised for a ready node.
is_node_ready_ErrorIsReady(read) ==
    IF read.raises THEN TRUE ELSE ReadyCondition(read.conditions)

is_node_ready(read) ==
    IF read.raises THEN FALSE ELSE ReadyCondition(read.conditions)

\* wait_for_server_status(timeout=300, poll_interval=10)
ServerTimeout == 300
\* wait_for_node_ready(timeout=600, poll_interval=10)
NodeTimeout == 600
PollInterval == 10

\* A check of the command line that lets extra arguments through.
InvalidArguments_Lax(args) ==
    Len(args) < 2 \/ args[2] \notin {"start", "stop"}

\* `len(sys.argv) != 2 or sys.argv[1] not in ["start", "stop"]`, with the
\* 0-based sys.argv[1] at index 2.
InvalidArguments(args) == Len(args) # 2 \/ args[2] \notin {"start", "stop"}

\* ------------------------------------------------------------------------
\* State
\* ------------------------------------------------------------------------

VARIABLES
    pod_name,       \* the argument of get_base_name
    base_name,      \* get_base_name(pod_name), None before the call
    rebase_name,    \* get_base_name(base_name), None before the call
    base_calls,     \* how many of the two calls have returned
    namespaces,     \* NAMESPACES
    removed,        \* the pods that others removed from the cluster
    cluster,        \* the pods of the cluster, in the order the API lists them
    now,            \* the clock, in seconds
    api_log,        \* the API calls issued, in order: by a call of the
                    \* reconciler on its own or, in a run of main, before the
                    \* loop over servers and then since the last turn began
    cu_pc,          \* cleanup_duplicate_pods: where the call is
    cu_ns,          \* cleanup_duplicate_pods: index of the next namespace
    pod_groups,     \* cleanup_duplicate_pods: the dict, as its items in order
    pods_to_delete, \* cleanup_duplicate_pods: the marked (namespace, name)
    cu_del,         \* cleanup_duplicate_pods: index of the next deletion
    argv,           \* sys.argv
    cloud,          \* the servers of the cloud, as the listing returns them
    run_pc,         \* main, start_server, stop_server: where the run is
    exit_code,      \* <<c>> once the process has exited with status c
    servers,        \* the ids find_servers returned
    srv_i,          \* index in servers of the server being processed
    v1,             \* start_server: TRUE with a client, FALSE for None
    waited,         \* the waiting loops: seconds waited
    polls,          \* the waiting loops: polls made by the current call
    server_ip,      \* start_server: the fixed IP of the server
    node_name,      \* start_server: the node found for the server
    messages,       \* the kinds of message logged or printed: before the
                    \* loop over servers, then since the last turn began
    last_poll,      \* what the last poll of the wait in progress gave
    turns           \* what each finished turn of the loop did, in order

baseVars == <<pod_name, base_name, rebase_name, base_calls>>

envVars == <<namespaces, cluster, removed, now, api_log>>

cleanupVars == <<cu_pc, cu_ns, pod_groups, pods_to_delete, cu_del>>

runVars ==
    <<argv, cloud, run_pc, exit_code, servers, srv_i, v1, waited, polls,
      last_poll, server_ip, node_name, messages, turns>>

vars == <<baseVars, envVars, cleanupVars, runVars>>

\* The clock when a run starts, in seconds: after every start time.
StartOfRun == 3

\* No call of get_base_name under way.
BaseIdle ==
    /\ pod_name = <<>>
    /\ base_name = None
    /\ rebase_name = None
    /\ base_calls = 0

\* No cluster and no call of cleanup_duplicate_pods under way.
CleanupIdle ==
    /\ namespaces = <<>>
    /\ removed = <<>>
    /\ cluster = <<>>
    /\ now = StartOfRun
    /\ api_log = <<>>
    /\ cu_pc = "idle"
    /\ cu_ns = 1
    /\ pod_groups = <<>>
    /\ pods_to_delete = <<>>
    /\ cu_del = 1

\* No run of main under way.
NoExit == <<>>

RunIdle ==
    /\ argv = <<>>
    /\ cloud = <<>>
    /\ run_pc = "idle"
    /\ exit_code = NoExit
    /\ servers = <<>>
    /\ srv_i = 1
    /\ v1 = FALSE
    /\ waited = 0
    /\ polls = 0
    /\ last_poll = NoPoll
    /\ server_ip = None
    /\ node_name = None
    /\ messages = {}
    /\ turns = <<>>

\* One API call in the log: the operation, what it was applied to, and
\* whether it returned (TRUE) or raised (FALSE).
Call(op, target, ok) == [op |-> op, target |-> target, ok |-> ok]

\* ------------------------------------------------------------------------
\* get_base_name applied to a pod name, then to its own result
\* ------------------------------------------------------------------------

InitBase ==
    /\ pod_name \in PodNameInputs
    /\ base_name = None
    /\ rebase_name = None
    /\ base_calls = 0
    /\ CleanupIdle
    /\ RunIdle

DeriveBaseName ==
    /\ base_calls = 0
    /\ base_name' = get_base_name(pod_name)
    /\ base_calls' = 1
    /\ UNCHANGED <<pod_name, rebase_name, envVars, cleanupVars, runVars>>

RederiveBaseName ==
    /\ base_calls = 1
    /\ rebase_name' = get_base_name(base_name)
    /\ base_calls' = 2
    /\ UNCHANGED <<pod_name, base_name, envVars, cleanupVars, runVars>>

NextBase == DeriveBaseName \/ RederiveBaseName

SpecBase == InitBase /\ [][NextBase]_vars

\* ------------------------------------------------------------------------
\* setup_kubernetes_client
\* ------------------------------------------------------------------------

\* What config.load_incluster_config() and config.load_kube_config() can do.
InClusterOutcomes == {"ok", "ConfigException", "Exception"}
KubeConfigOutcomes == {"ok", "Exception"}

\* TRUE when setup_kubernetes_client returns a client, FALSE when it raises:
\* the kubeconfig file is tried only after a ConfigException.
setup_kubernetes_client(incluster, kubeconfig) ==
    \/ incluster = "ok"
    \/ incluster = "ConfigException" /\ kubeconfig = "ok"

\* ------------------------------------------------------------------------
\* cleanup_duplicate_pods
\* ------------------------------------------------------------------------

\* The client setup of the call; a failure is logged and the call returns.
CleanupSetup ==
    /\ cu_pc = "setup"
    /\ \E incluster \in InClusterOutcomes, kubeconfig \in KubeConfigOutcomes :
          LET ok == setup_kubernetes_client(incluster, kubeconfig)
          IN  /\ api_log' = Append(api_log, Call("load_config", "cleanup", ok))
              /\ cu_pc' = IF ok THEN "list" ELSE "done"
    /\ pod_groups' = <<>>
    /\ cu_ns' = 1
    /\ pods_to_delete' = <<>>
    /\ cu_del' = 1
    /\ UNCHANGED <<baseVars, runVars, namespaces, removed, cluster, now>>

\* One turn of `for ns in NAMESPACES`: the listing, which may raise, and the
\* grouping of the listed pods. The listing can take time.
CleanupListNamespace ==
    /\ cu_pc = "list"
    /\ cu_ns <= Len(namespaces)
    /\ \E ok \in BOOLEAN, d \in 0..1 :
          LET ns == namespaces[cu_ns]
          IN  /\ now + d <= StartOfRun + MaxTicks
              /\ now' = now + d
              /\ api_log' = Append(api_log, Call("list_pod", ns, ok))
              /\ pod_groups' =
                    IF ok
                    THEN GroupPods(pod_groups, ns, PodsIn(cluster, ns), now')
                    ELSE pod_groups
    /\ cu_ns' = cu_ns + 1
    /\ UNCHANGED <<baseVars, runVars, namespaces, removed, cluster, cu_pc,
                   pods_to_delete, cu_del>>

\* The loop over pod_groups.items() that fills pods_to_delete.
CleanupMark ==
    /\ cu_pc = "list"
    /\ cu_ns > Len(namespaces)
    /\ pods_to_delete' = MarkPods(pod_groups)
    /\ cu_del' = 1
    /\ cu_pc' = "delete"
    /\ UNCHANGED <<baseVars, runVars, envVars, cu_ns, pod_groups>>

\* A deletion loop that looks at the cluster again and makes no delete call
\* for a pod that has no other pod of its name left.
CleanupDelete_Relists ==
    /\ cu_pc = "delete"
    /\ cu_del <= Len(pods_to_delete)
    /\ \E ok \in BOOLEAN :
          LET ns == pods_to_delete[cu_del][1]
              pod == pods_to_delete[cu_del][2]
              left == {k \in 1..Len(cluster) :
                          /\ cluster[k].namespace = ns
                          /\ get_base_name(cluster[k].name) =
                                get_base_name(pod)}
          IN  IF Cardinality(left) < 2
              THEN UNCHANGED <<api_log, cluster>>
              ELSE /\ ok => HasPod(cluster, ns, pod)
                   /\ api_log' =
                         Append(api_log, Call("delete_pod", <<ns, pod>>, ok))
                   /\ cluster' =
                         IF ok THEN WithoutPod(cluster, ns, pod) ELSE cluster
    /\ cu_del' = cu_del + 1
    /\ UNCHANGED <<baseVars, runVars, namespaces, removed, now, cu_pc, cu_ns,
                   pod_groups, pods_to_delete>>

\* A deletion loop that a failed delete call ends.
CleanupDelete_StopsOnFailure ==
    /\ cu_pc = "delete"
    /\ cu_del <= Len(pods_to_delete)
    /\ \E ok \in BOOLEAN :
          LET ns == pods_to_delete[cu_del][1]
              pod == pods_to_delete[cu_del][2]
          IN  /\ ok => HasPod(cluster, ns, pod)
              /\ api_log' =
                    Append(api_log, Call("delete_pod", <<ns, pod>>, ok))
              /\ cluster' =
                    IF ok THEN WithoutPod(cluster, ns, pod) ELSE cluster
              /\ cu_del' = IF ok THEN cu_del + 1
                           ELSE Len(pods_to_delete) + 1
    /\ UNCHANGED <<baseVars, runVars, namespaces, removed, now, cu_pc, cu_ns,
                   pod_groups, pods_to_delete>>

\* One turn of the deletion loop: the delete call removes the pod, or raises
\* (always when the pod is gone) and the failure is logged.
CleanupDelete ==
    /\ cu_pc = "delete"
    /\ cu_del <= Len(pods_to_delete)
    /\ \E ok \in BOOLEAN :
          LET ns == pods_to_delete[cu_del][1]
              pod == pods_to_delete[cu_del][2]
          IN  /\ ok => HasPod(cluster, ns, pod)
              /\ api_log' =
                    Append(api_log, Call("delete_pod", <<ns, pod>>, ok))
              /\ cluster' =
                    IF ok THEN WithoutPod(cluster, ns, pod) ELSE cluster
    /\ cu_del' = cu_del + 1
    /\ UNCHANGED <<baseVars, runVars, namespaces, removed, now, cu_pc, cu_ns,
                   pod_groups, pods_to_delete>>

\* The call returns after the last deletion (or with nothing to delete).
CleanupReturn ==
    /\ cu_pc = "delete"
    /\ cu_del > Len(pods_to_delete)
    /\ cu_pc' = "done"
    /\ UNCHANGED <<baseVars, runVars, envVars, cu_ns, pod_groups,
                   pods_to_delete, cu_del>>

\* One call of cleanup_duplicate_pods on a cluster.
InitCleanup ==
    /\ BaseIdle
    /\ RunIdle
    /\ namespaces \in NamespaceLists
    /\ removed = <<>>
    /\ cluster \in Clusters
    /\ now = StartOfRun
    /\ api_log = <<>>
    /\ cu_pc = "setup"
    /\ cu_ns = 1
    /\ pod_groups = <<>>
    /\ pods_to_delete = <<>>
    /\ cu_del = 1

NextCleanup ==
    \/ CleanupSetup
    \/ CleanupListNamespace
    \/ CleanupMark
    \/ CleanupDelete
    \/ CleanupReturn

SpecCleanup == InitCleanup /\ [][NextCleanup]_vars

\* Another actor of the cluster (a controller, an operator) removes a pod
\* while the call of cleanup_duplicate_pods is in progress.
OtherActorRemoves ==
    /\ cu_pc \in {"setup", "list", "delete"}
    /\ Len(removed) < MaxRemovals
    /\ \E k \in 1..Len(cluster) :
          /\ cluster' = WithoutPod(cluster, cluster[k].namespace,
                                   cluster[k].name)
          /\ removed' = Append(removed,
                               <<cluster[k].namespace, cluster[k].name>>)
    /\ UNCHANGED <<baseVars, runVars, cleanupVars, namespaces, now, api_log>>

\* One call of cleanup_duplicate_pods on a cluster of duplicates that others
\* change too.
InitRace ==
    /\ InitCleanup
    /\ cluster \in {ScenarioTwoNodes, ScenarioTwoDuplicates,
                    ScenarioTwoWorkloads, ScenarioMixed}

NextRace == NextCleanup \/ OtherActorRemoves

SpecRace == InitRace /\ [][NextRace]_vars

\* ------------------------------------------------------------------------
\* main, start_server, stop_server
\* ------------------------------------------------------------------------

\* The server of the current turn of the loop.
CurrentId == servers[srv_i]
CurrentServer == cloud[CurrentId]

\* An exit that always reports success.
Exit_Zero(c) == exit_code' = <<0>> /\ run_pc' = "exited"

\* The process exits with status c.
Exit(c) == exit_code' = <<c>> /\ run_pc' = "exited"

\* How many calls of an operation a log holds.
Count(log, op) == Cardinality({k \in 1..Len(log) : log[k].op = op})

\* The calls made before the loop over servers: they stay in the log when a
\* turn begins, the calls of the turn before do not.
IsSetupCall(c) ==
    \/ c.op \in {"connect", "servers"}
    \/ c.op = "load_config" /\ c.target = "start"

SetupCalls(log) == SelectSeq(log, IsSetupCall)

\* The kinds of message of the steps before the loop over servers.
SetupMessages ==
    {"called", "connected", "found", "config_failed", "k8s_unavailable"}

\* What a finished turn of the loop did for its server: the numbers of start
\* calls, of start calls that returned, of stop calls, of stop calls that
\* returned, of waits for a status
\* and of calls of the reconciler, and whether the handler of the turn in
\* start_server caught an exception.
TurnSummary(id, log, said) ==
    [id |-> id,
     caught |-> "start_failed" \in said,
     starts |-> Count(log, "start_server"),
     started |-> Cardinality({k \in 1..Len(log) :
                     log[k].op = "start_server" /\ log[k].ok}),
     stops |-> Count(log, "stop_server"),
     stopped |-> Cardinality({k \in 1..Len(log) :
                     log[k].op = "stop_server" /\ log[k].ok}),
     waits |-> Count(log, "wait_for_server_status"),
     cleanups |-> Count(log, "cleanup_duplicate_pods")]

\* The current turn of the loop over servers ends, with `log` the calls and
\* `said` the messages of the turn.
NextServer(loop, log, said) ==
    /\ api_log' = log
    /\ messages' = said
    /\ turns' = Append(turns, TurnSummary(CurrentId, log, said))
    /\ srv_i' = srv_i + 1
    /\ run_pc' = loop
    /\ waited' = 0
    /\ polls' = 0
    /\ server_ip' = None
    /\ node_name' = None

\* start_server calls cleanup_duplicate_pods() for the current server.
CallCleanup(log) ==
    /\ api_log' = Append(log, Call("cleanup_duplicate_pods", CurrentId, TRUE))
    /\ run_pc' = "cleanup"
    /\ cu_pc' = "setup"
    /\ waited' = 0
    /\ polls' = 0

\* main: the check of the command line; a bad one prints the usage and
\* exits with status 1.
MainCheckArguments ==
    /\ run_pc = "main"
    /\ IF InvalidArguments(argv)
       THEN /\ messages' = messages \cup {"usage"}
            /\ Exit(1)
       ELSE /\ messages' = messages \cup {"called"}
            /\ run_pc' = "connect"
            /\ UNCHANGED exit_code
    /\ UNCHANGED <<baseVars, envVars, cleanupVars, argv, cloud, servers,
                   srv_i, v1, waited, polls, server_ip, node_name, turns,
                   last_poll>>

\* A connect whose failure is logged and then ignored.
Connect_Ignoring ==
    /\ run_pc = "connect"
    /\ \E ok \in BOOLEAN :
          /\ api_log' = Append(api_log, Call("connect", "cloud", ok))
          /\ messages' = messages \cup
                IF ok THEN {"connected"} ELSE {"connect_failed"}
    /\ run_pc' = "find_servers"
    /\ UNCHANGED <<baseVars, namespaces, removed, cluster, now, cleanupVars, argv,
                   cloud, exit_code, servers, srv_i, v1, waited, polls,
                   server_ip, node_name, turns,
                   last_poll>>

\* connect() as start_server and stop_server call it: the session and the
\* probing list call; a failure of either is logged and raised up to main,
\* which exits with status 1.
Connect ==
    /\ run_pc = "connect"
    /\ \E session \in BOOLEAN, probe \in BOOLEAN :
          LET ok == session /\ probe
          IN  /\ api_log' = Append(api_log, Call("connect", "cloud", ok))
              /\ IF ok
                 THEN /\ messages' = messages \cup {"connected"}
                      /\ run_pc' = "find_servers"
                      /\ UNCHANGED exit_code
                 ELSE /\ messages' = messages \cup
                            {"connect_failed", "action_failed",
                             "script_failed"}
                      /\ Exit(1)
    /\ UNCHANGED <<baseVars, namespaces, removed, cluster, now, cleanupVars, argv,
                   cloud, servers, srv_i, v1, waited, polls, server_ip,
                   node_name, turns,
                   last_poll>>

\* find_servers() as start_server and stop_server call it, and the check for
\* an empty result: a failed listing is logged and raised up to main, an
\* empty result is logged and the action returns.
FindServers ==
    /\ run_pc = "find_servers"
    /\ \E ok \in BOOLEAN :
          LET found == find_servers(cloud, PARTIAL_SERVER_NAME, 1)
          IN  /\ api_log' =
                    Append(api_log, Call("servers", PARTIAL_SERVER_NAME, ok))
              /\ IF ~ok
                 THEN /\ messages' = messages \cup
                            {"find_failed", "action_failed", "script_failed"}
                      /\ Exit(1)
                      /\ UNCHANGED servers
                 ELSE IF found = <<>>
                 THEN /\ messages' = messages \cup
                            {"found", "no_servers", "script_completed"}
                      /\ Exit(0)
                      /\ servers' = found
                 ELSE /\ messages' = messages \cup {"found"}
                      /\ servers' = found
                      /\ run_pc' = IF argv[2] = "start"
                                   THEN "kube_setup" ELSE "stop_loop"
                      /\ UNCHANGED exit_code
    /\ srv_i' = 1
    /\ UNCHANGED <<baseVars, namespaces, removed, cluster, now, cleanupVars, argv,
                   cloud, v1, waited, polls, server_ip, node_name, turns,
                   last_poll>>

\* start_server: the client setup, once for the run; a failure is logged as
\* a warning and v1 is None.
StartKubeSetup ==
    /\ run_pc = "kube_setup"
    /\ \E incluster \in InClusterOutcomes, kubeconfig \in KubeConfigOutcomes :
          LET ok == setup_kubernetes_client(incluster, kubeconfig)
          IN  /\ api_log' = Append(api_log, Call("load_config", "start", ok))
              /\ v1' = ok
              /\ messages' = IF ok THEN messages
                             ELSE messages \cup
                                    {"config_failed", "k8s_unavailable"}
    /\ run_pc' = "start_loop"
    /\ UNCHANGED <<baseVars, namespaces, removed, cluster, now, cleanupVars, argv,
                   cloud, exit_code, servers, srv_i, waited, polls,
                   server_ip, node_name, turns,
                   last_poll>>

\* A turn for a shutoff server whose failed start call ends the whole run.
StartShutoffServer_Aborting ==
    /\ run_pc = "start_loop"
    /\ srv_i <= Len(servers)
    /\ lower(CurrentServer.status) = "shutoff"
    /\ \E ok \in BOOLEAN :
          /\ api_log' = Append(SetupCalls(api_log),
                               Call("start_server", CurrentId, ok))
          /\ messages' = (messages \cap SetupMessages) \cup {"starting"}
          /\ IF ok
             THEN /\ run_pc' = "wait_active"
                  /\ UNCHANGED exit_code
             ELSE Exit(1)
    /\ waited' = 0
    /\ polls' = 0
    /\ last_poll' = NoPoll
    /\ UNCHANGED <<baseVars, namespaces, removed, cluster, now, cleanupVars, argv,
                   cloud, servers, srv_i, v1, server_ip, node_name, turns>>

\* start_server: a server listed as shutoff gets the start call; if the call
\* raises, the failure is logged and the loop goes on.
StartShutoffServer ==
    /\ run_pc = "start_loop"
    /\ srv_i <= Len(servers)
    /\ lower(CurrentServer.status) = "shutoff"
    /\ \E ok \in BOOLEAN :
          LET log == Append(SetupCalls(api_log),
                            Call("start_server", CurrentId, ok))
              said == (messages \cap SetupMessages) \cup {"starting"}
          IN  IF ok
              THEN /\ api_log' = log
                   /\ messages' = said
                   /\ run_pc' = "wait_active"
                   /\ waited' = 0
                   /\ polls' = 0
                   /\ UNCHANGED <<srv_i, server_ip, node_name, turns>>
              ELSE NextServer("start_loop", log, said \cup {"start_failed"})
    /\ last_poll' = NoPoll
    /\ UNCHANGED <<baseVars, namespaces, removed, cluster, now, cleanupVars, argv,
                   cloud, exit_code, servers, v1>>

\* A turn for a running server that calls the reconciler without looking at
\* the client.
ServerAlreadyRunning_NoClientCheck ==
    /\ run_pc = "start_loop"
    /\ srv_i <= Len(servers)
    /\ lower(CurrentServer.status) # "shutoff"
    /\ CallCleanup(SetupCalls(api_log))
    /\ messages' = (messages \cap SetupMessages) \cup {"already_running"}
    /\ last_poll' = NoPoll
    /\ UNCHANGED <<baseVars, namespaces, removed, cluster, now, cu_ns, pod_groups,
                   pods_to_delete, cu_del, argv, cloud, exit_code, servers,
                   srv_i, v1, server_ip, node_name, turns>>

\* A turn for a running server that only logs it, client or not.
ServerAlreadyRunning_LogOnly ==
    /\ run_pc = "start_loop"
    /\ srv_i <= Len(servers)
    /\ lower(CurrentServer.status) # "shutoff"
    /\ NextServer("start_loop", SetupCalls(api_log),
                  (messages \cap SetupMessages) \cup {"already_running"})
    /\ last_poll' = NoPoll
    /\ UNCHANGED <<baseVars, namespaces, removed, cluster, now, cleanupVars, argv,
                   cloud, exit_code, servers, v1>>

\* start_server: a server not listed as shutoff is logged as running, and
\* with a client the reconciler is called.
ServerAlreadyRunning ==
    /\ run_pc = "start_loop"
    /\ srv_i <= Len(servers)
    /\ lower(CurrentServer.status) # "shutoff"
    /\ LET said == (messages \cap SetupMessages) \cup {"already_running"}
       IN  IF v1
           THEN /\ CallCleanup(SetupCalls(api_log))
                /\ messages' = said
                /\ UNCHANGED <<srv_i, server_ip, node_name, turns>>
           ELSE /\ NextServer("start_loop", SetupCalls(api_log), said)
                /\ UNCHANGED cu_pc
    /\ last_poll' = NoPoll
    /\ UNCHANGED <<baseVars, namespaces, removed, cluster, now, cu_ns, pod_groups,
                   pods_to_delete, cu_del, argv, cloud, exit_code, servers,
                   v1>>

\* start_server returns after the last server and main exits normally.
StartReturn ==
    /\ run_pc = "start_loop"
    /\ srv_i > Len(servers)
    /\ messages' = messages \cup {"script_completed"}
    /\ Exit(0)
    /\ UNCHANGED <<baseVars, envVars, cleanupVars, argv, cloud, servers,
                   srv_i, v1, waited, polls, server_ip, node_name, turns,
                   last_poll>>

\* A poll loop whose raising polls do not count against the timeout.
WaitActivePoll_FreeRetry ==
    /\ run_pc = "wait_active"
    /\ waited < ServerTimeout
    /\ \E poll \in ServerPolls :
          /\ last_poll' = poll
          /\ IF ~poll.raises /\ lower(poll.status) = lower("active")
             THEN LET log == Append(api_log,
                         Call("wait_for_server_status", CurrentId, TRUE))
                  IN  IF v1
                      THEN /\ api_log' = log
                           /\ run_pc' = "get_ip"
                           /\ waited' = 0
                           /\ polls' = 0
                           /\ UNCHANGED <<messages, srv_i, server_ip, node_name,
                                          turns>>
                      ELSE NextServer("start_loop", log,
                                      messages \cup {"active", "k8s_skipped"})
             ELSE /\ waited' = IF poll.raises THEN waited
                                ELSE waited + PollInterval
                  /\ polls' = polls + 1
                  /\ UNCHANGED <<api_log, messages, run_pc, srv_i, server_ip,
                                 node_name, turns>>
    /\ UNCHANGED <<baseVars, namespaces, removed, cluster, now, cleanupVars, argv,
                   cloud, exit_code, servers, v1>>

\* wait_for_server_status(conn, server.id, "active"): one poll. The desired
\* status returns True, and start_server goes on to the cluster steps or,
\* without a client, to the next server; another status or an error sleeps.
WaitActivePoll ==
    /\ run_pc = "wait_active"
    /\ waited < ServerTimeout
    /\ \E poll \in ServerPolls :
          /\ last_poll' = poll
          /\ IF ~poll.raises /\ lower(poll.status) = lower("active")
             THEN LET log == Append(api_log,
                         Call("wait_for_server_status", CurrentId, TRUE))
                  IN  IF v1
                      THEN /\ api_log' = log
                           /\ run_pc' = "get_ip"
                           /\ waited' = 0
                           /\ polls' = 0
                           /\ UNCHANGED <<messages, srv_i, server_ip, node_name,
                                          turns>>
                      ELSE NextServer("start_loop", log,
                                      messages \cup {"active", "k8s_skipped"})
             ELSE /\ waited' = waited + PollInterval
                  /\ polls' = polls + 1
                  /\ UNCHANGED <<api_log, messages, run_pc, srv_i, server_ip,
                                 node_name, turns>>
    /\ UNCHANGED <<baseVars, namespaces, removed, cluster, now, cleanupVars, argv,
                   cloud, exit_code, servers, v1>>

\* wait_for_server_status: the timeout is logged and False is returned;
\* start_server logs it and goes to the next server.
WaitActiveTimeout ==
    /\ run_pc = "wait_active"
    /\ waited >= ServerTimeout
    /\ NextServer("start_loop",
                  Append(api_log,
                         Call("wait_for_server_status", CurrentId, FALSE)),
                  messages \cup {"active_timeout"})
    /\ last_poll' = NoPoll
    /\ UNCHANGED <<baseVars, namespaces, removed, cluster, now, cleanupVars, argv,
                   cloud, exit_code, servers, v1>>

\* start_server: get_server_ip on the addresses of the server, which the
\* run reads only here; without a fixed IP the reconciler is called right
\* away.
GetServerIp ==
    /\ run_pc = "get_ip"
    /\ \E addresses \in ServerAddresses :
          LET ip == get_server_ip(addresses)
          IN  IF ip # None
              THEN /\ server_ip' = ip
                   /\ run_pc' = "find_node"
                   /\ UNCHANGED <<api_log, cu_pc, messages, waited, polls>>
              ELSE /\ messages' = messages \cup {"no_ip"}
                   /\ CallCleanup(api_log)
                   /\ UNCHANGED server_ip
    /\ last_poll' = NoPoll
    /\ UNCHANGED <<baseVars, namespaces, removed, cluster, now, cu_ns, pod_groups,
                   pods_to_delete, cu_del, argv, cloud, exit_code, servers,
                   srv_i, v1, node_name, turns>>

\* start_server: find_node_by_ip, whose node listing may raise (logged, None
\* returned); without a node the reconciler is called right away.
FindNodeByIp ==
    /\ run_pc = "find_node"
    /\ \E ok \in BOOLEAN :
          LET log == Append(api_log, Call("list_node", server_ip, ok))
              name == IF ok THEN find_node_by_ip(ClusterNodes, server_ip)
                      ELSE None
          IN  IF name # None
              THEN /\ api_log' = log
                   /\ node_name' = name
                   /\ run_pc' = "wait_node"
                   /\ waited' = 0
                   /\ polls' = 0
                   /\ UNCHANGED <<cu_pc, messages>>
              ELSE /\ messages' = messages \cup {"node_not_found"}
                   /\ CallCleanup(log)
                   /\ UNCHANGED node_name
    /\ UNCHANGED <<baseVars, namespaces, removed, cluster, now, cu_ns, pod_groups,
                   pods_to_delete, cu_del, argv, cloud, exit_code, servers,
                   srv_i, v1, server_ip, turns,
                   last_poll>>

\* wait_for_node_ready(node_name): one poll of is_node_ready. A ready node
\* returns True and start_server calls the reconciler; otherwise sleep.
WaitNodePoll ==
    /\ run_pc = "wait_node"
    /\ waited < NodeTimeout
    /\ \E read \in NodeReads :
          /\ last_poll' = read
          /\ IF is_node_ready(read)
             THEN /\ CallCleanup(Append(api_log,
                         Call("wait_for_node_ready", node_name, TRUE)))
             ELSE /\ waited' = waited + PollInterval
                  /\ polls' = polls + 1
                  /\ UNCHANGED <<api_log, run_pc, cu_pc>>
    /\ UNCHANGED <<baseVars, namespaces, removed, cluster, now, cu_ns, pod_groups,
                   pods_to_delete, cu_del, argv, cloud, exit_code, servers,
                   srv_i, v1, server_ip, node_name, messages, turns>>

\* A timeout of the node wait after which the reconciler is called anyway.
WaitNodeTimeout_StillCleans ==
    /\ run_pc = "wait_node"
    /\ waited >= NodeTimeout
    /\ CallCleanup(Append(api_log,
                          Call("wait_for_node_ready", node_name, FALSE)))
    /\ messages' = messages \cup {"node_timeout"}
    /\ last_poll' = NoPoll
    /\ UNCHANGED <<baseVars, namespaces, removed, cluster, now, cu_ns, pod_groups,
                   pods_to_delete, cu_del, argv, cloud, exit_code, servers,
                   srv_i, v1, server_ip, node_name, turns>>

\* wait_for_node_ready: the timeout is logged and False is returned;
\* start_server logs a warning and goes to the next server.
WaitNodeTimeout ==
    /\ run_pc = "wait_node"
    /\ waited >= NodeTimeout
    /\ NextServer("start_loop",
                  Append(api_log,
                         Call("wait_for_node_ready", node_name, FALSE)),
                  messages \cup {"node_timeout"})
    /\ last_poll' = NoPoll
    /\ UNCHANGED <<baseVars, namespaces, removed, cluster, now, cleanupVars, argv,
                   cloud, exit_code, servers, v1>>

\* cleanup_duplicate_pods() has returned to start_server, its locals are
\* gone: next server.
CleanupReturned ==
    /\ run_pc = "cleanup"
    /\ cu_pc = "done"
    /\ cu_pc' = "idle"
    /\ cu_ns' = 1
    /\ pod_groups' = <<>>
    /\ pods_to_delete' = <<>>
    /\ cu_del' = 1
    /\ NextServer("start_loop", api_log, messages)
    /\ last_poll' = NoPoll
    /\ UNCHANGED <<baseVars, namespaces, removed, cluster, now, argv, cloud,
                   exit_code, servers, v1>>

\* An exception leaves cleanup_duplicate_pods from its loop over the pods of
\* a listed namespace, which no handler of the function covers; the handler
\* of the turn in start_server catches and logs it: next server.
CleanupRaises ==
    /\ run_pc = "cleanup"
    /\ cu_pc = "list"
    /\ cu_ns <= Len(namespaces)
    /\ PodsIn(cluster, namespaces[cu_ns]) # <<>>
    /\ cu_pc' = "idle"
    /\ cu_ns' = 1
    /\ pod_groups' = <<>>
    /\ pods_to_delete' = <<>>
    /\ cu_del' = 1
    /\ NextServer("start_loop",
                  Append(api_log, Call("list_pod", namespaces[cu_ns], TRUE)),
                  messages \cup {"start_failed"})
    /\ last_poll' = NoPoll
    /\ UNCHANGED <<baseVars, namespaces, removed, cluster, now, argv, cloud,
                   exit_code, servers, v1>>

\* A stop loop that starts the servers it finds stopped.
StopServer_Restarts ==
    /\ run_pc = "stop_loop"
    /\ srv_i <= Len(servers)
    /\ LET log == SetupCalls(api_log)
           said == messages \cap SetupMessages
       IN  IF lower(CurrentServer.status) # "shutoff"
           THEN \E ok \in BOOLEAN :
                   NextServer("stop_loop",
                              Append(log, Call("stop_server", CurrentId, ok)),
                              said \cup
                                {"stopping",
                                 IF ok THEN "stop_sent" ELSE "stop_failed"})
           ELSE NextServer("stop_loop",
                           Append(log, Call("start_server", CurrentId, TRUE)),
                           said \cup {"already_stopped"})
    /\ last_poll' = NoPoll
    /\ UNCHANGED <<baseVars, namespaces, removed, cluster, now, cleanupVars, argv,
                   cloud, exit_code, servers, v1>>

\* stop_server: one turn of the loop. A server not listed as shutoff gets
\* the stop call, whose failure is logged; the loop goes on either way.
StopServer ==
    /\ run_pc = "stop_loop"
    /\ srv_i <= Len(servers)
    /\ LET log == SetupCalls(api_log)
           said == messages \cap SetupMessages
       IN  IF lower(CurrentServer.status) # "shutoff"
           THEN \E ok \in BOOLEAN :
                   NextServer("stop_loop",
                              Append(log, Call("stop_server", CurrentId, ok)),
                              said \cup
                                {"stopping",
                                 IF ok THEN "stop_sent" ELSE "stop_failed"})
           ELSE NextServer("stop_loop", log, said \cup {"already_stopped"})
    /\ last_poll' = NoPoll
    /\ UNCHANGED <<baseVars, namespaces, removed, cluster, now, cleanupVars, argv,
                   cloud, exit_code, servers, v1>>

\* stop_server returns after the last server and main exits normally.
StopReturn ==
    /\ run_pc = "stop_loop"
    /\ srv_i > Len(servers)
    /\ messages' = messages \cup {"script_completed"}
    /\ Exit(0)
    /\ UNCHANGED <<baseVars, envVars, cleanupVars, argv, cloud, servers,
                   srv_i, v1, waited, polls, server_ip, node_name, turns,
                   last_poll>>

\* One run of the script on a cloud, with a cluster of two duplicate pods.
InitRun ==
    /\ BaseIdle
    /\ namespaces = <<N1, N2>>
    /\ removed = <<>>
    /\ cluster = ScenarioTwoNodes
    /\ now = StartOfRun
    /\ api_log = <<>>
    /\ cu_pc = "idle"
    /\ cu_ns = 1
    /\ pod_groups = <<>>
    /\ pods_to_delete = <<>>
    /\ cu_del = 1
    /\ argv \in CommandLines
    /\ cloud \in Clouds
    /\ run_pc = "main"
    /\ exit_code = NoExit
    /\ servers = <<>>
    /\ srv_i = 1
    /\ v1 = FALSE
    /\ waited = 0
    /\ polls = 0
    /\ last_poll = NoPoll
    /\ server_ip = None
    /\ node_name = None
    /\ messages = {}
    /\ turns = <<>>

NextRun ==
    \/ MainCheckArguments
    \/ Connect
    \/ FindServers
    \/ StartKubeSetup
    \/ StartShutoffServer
    \/ ServerAlreadyRunning
    \/ StartReturn
    \/ WaitActivePoll
    \/ WaitActiveTimeout
    \/ GetServerIp
    \/ FindNodeByIp
    \/ WaitNodePoll
    \/ WaitNodeTimeout
    \/ CleanupSetup
    \/ CleanupListNamespace
    \/ CleanupMark
    \/ CleanupDelete
    \/ CleanupReturn
    \/ CleanupReturned
    \/ CleanupRaises
    \/ StopServer
    \/ StopReturn

SpecRun == InitRun /\ [][NextRun]_vars

\* One start run on a cloud whose only server matches and is shut off. The
\* process keeps running: it takes its next step whenever it has one.
InitStartOne ==
    /\ InitRun
    /\ argv = <<Script, "start">>
    /\ cloud = <<[name |-> K8sNode2A, status |-> "SHUTOFF"]>>

NextStart ==
    \/ MainCheckArguments
    \/ Connect
    \/ FindServers
    \/ StartKubeSetup
    \/ StartShutoffServer
    \/ StartReturn
    \/ WaitActivePoll
    \/ WaitActiveTimeout
    \/ GetServerIp
    \/ FindNodeByIp
    \/ WaitNodePoll
    \/ WaitNodeTimeout
    \/ CleanupSetup
    \/ CleanupListNamespace
    \/ CleanupMark
    \/ CleanupDelete
    \/ CleanupReturn
    \/ CleanupReturned
    \/ CleanupRaises

SpecStartOne == InitStartOne /\ [][NextStart]_vars /\ WF_vars(NextStart)

\* The clouds of matched servers only, running or shut off.
MatchedClouds ==
    UNION {[1..n -> [name : {K8sNode2A}, status : {"ACTIVE", "SHUTOFF"}]] :
              n \in 1..MaxServers}

\* One start run on a cloud of matched servers and a cluster with duplicate
\* groups, which only the reconciler changes.
InitStartMany ==
    /\ BaseIdle
    /\ cu_pc = "idle"
    /\ cu_ns = 1
    /\ pod_groups = <<>>
    /\ pods_to_delete = <<>>
    /\ cu_del = 1
    /\ namespaces = <<N1, N2>>
    /\ removed = <<>>
    /\ cluster \in {ScenarioThreeOnTwoNodes, ScenarioTwoDuplicates,
                    ScenarioOneStarted}
    /\ now = StartOfRun
    /\ api_log = <<>>
    /\ argv = <<Script, "start">>
    /\ cloud \in MatchedClouds
    /\ run_pc = "main"
    /\ exit_code = NoExit
    /\ servers = <<>>
    /\ srv_i = 1
    /\ v1 = FALSE
    /\ waited = 0
    /\ polls = 0
    /\ last_poll = NoPoll
    /\ server_ip = None
    /\ node_name = None
    /\ messages = {}
    /\ turns = <<>>

NextStartMany == NextStart \/ ServerAlreadyRunning

SpecStartMany == InitStartMany /\ [][NextStartMany]_vars

\* ------------------------------------------------------------------------
\* Properties of get_base_name (specification SpecBase)
\* ------------------------------------------------------------------------

\* "myapp"
Myapp == <<"m", "y", "a", "p", "p">>

\* "db-0-x2"
Db0X2 == <<"d", "b", "-", "0", "-", "x", "2">>

\* A segment made only of lowercase letters and digits, and not empty.
OnlyLowerAlnum(seg) ==
    /\ Len(seg) > 0
    /\ \A i \in 1..Len(seg) : seg[i] \in LowerLetters \cup Digits

\* The pattern ^[a-z0-9]+$ as Python matches it: only lowercase letters and
\* digits, where `$` lets one newline follow them at the end.
LooksGenerated(seg) ==
    \/ OnlyLowerAlnum(seg)
    \/ /\ Len(seg) > 1
       /\ seg[Len(seg)] = "\n"
       /\ OnlyLowerAlnum(SubSeq(seg, 1, Len(seg) - 1))

\* The first k segments joined with '-'.
RECURSIVE JoinFirst(_, _)
JoinFirst(parts, k) ==
    IF k <= 1 THEN parts[1]
    ELSE JoinFirst(parts, k - 1) \o <<"-">> \o parts[k]

\* The least element of a non-empty set of integers.
Least(S) == CHOOSE x \in S : \A y \in S : x <= y

\* C1: get_base_name("myapp-deployment-abc1") = "myapp-deployment".
C1_MyappDeploymentExample ==
    (pod_name = MyappDeploymentAbc1 /\ base_calls >= 1)
        => base_name = MyappDeployment

\* What the code returns for the name of C1: the loop breaks at "deployment".
C1_CodeReturnsMyapp ==
    (pod_name = MyappDeploymentAbc1 /\ base_calls >= 1) => base_name = Myapp

\* C2: for every pod name n, get_base_name(n) is a prefix of n that ends at a
\* '-' boundary (it is n, or the next character of n is '-'), and deriving
\* the base name of the base name gives the base name again.
C2_PrefixAtBoundaryIdempotent ==
    /\ base_calls >= 1 =>
          /\ IsPrefix(base_name, pod_name)
          /\ \/ base_name = pod_name
             \/ pod_name[Len(base_name) + 1] = "-"
    /\ base_calls = 2 => rebase_name = base_name

\* C2 witness: a name that was cut at a boundary after its second segment,
\* and whose base name was derived again.
C2_Witness ==
    /\ base_calls = 2
    /\ base_name # pod_name
    /\ Len(split(base_name, "-")) >= 2
    /\ rebase_name = base_name

\* The index of the segment where the scan stops, as the code does it: the
\* first segment after the first one that is at least 4 characters long and
\* matches the lowercase-alphanumeric pattern; Len + 1 when there is none.
StopIndexLong(parts) ==
    LET hits == {i \in 2..Len(parts) :
                    Len(parts[i]) >= 4 /\ LooksGenerated(parts[i])}
    IN  IF hits = {} THEN Len(parts) + 1 ELSE Least(hits)

\* The index where the scan stops as C10 states it: the first segment that is
\* shorter than 4 characters and made only of lowercase letters and digits.
StopIndexShort(parts) ==
    LET hits == {i \in 1..Len(parts) :
                    Len(parts[i]) < 4 /\ OnlyLowerAlnum(parts[i])}
    IN  IF hits = {} THEN Len(parts) + 1 ELSE Least(hits)

\* C10 as stated: the base name is the segments before the first segment that
\* is both shorter than 4 characters and lowercase-alphanumeric, re-joined
\* (just the first segment when that segment is the first one).
C10_StopsAtShortSegment ==
    base_calls >= 1 =>
        LET parts == split(pod_name, "-")
        IN  base_name = JoinFirst(parts, StopIndexShort(parts) - 1)

\* C10 amended: the base name is the first segment followed by the later
\* segments up to, and excluding, the first later segment that is at least 4
\* characters long and matches ^[a-z0-9]+$; every segment before it is kept.
C10_StopsAtLongSegment ==
    base_calls >= 1 =>
        LET parts == split(pod_name, "-")
        IN  base_name = JoinFirst(parts, StopIndexLong(parts) - 1)

\* C10 witness: "db-0-x2-7f8c9d-x2" was cut at its fourth segment, after two
\* short lowercase-alphanumeric segments were kept.
C10_Witness ==
    /\ base_calls >= 1
    /\ pod_name = Db0X27f8c9dX2
    /\ StopIndexLong(split(pod_name, "-")) = 4
    /\ base_name = Db0X2

\* The first segment matches the suffix pattern: as the code tests the later
\* segments (at least 4 characters of ^[a-z0-9]+$), or as the pattern is
\* worded (shorter than 4 characters, lowercase letters and digits only).
FirstLooksLikeSuffix(parts) ==
    \/ Len(parts[1]) >= 4 /\ LooksGenerated(parts[1])
    \/ Len(parts[1]) < 4 /\ OnlyLowerAlnum(parts[1])

\* C11 as stated: when the first segment of the pod name matches the suffix
\* pattern, the base name is just that first segment, whatever follows.
C11_FirstSegmentAlone ==
    base_calls >= 1 =>
        LET parts == split(pod_name, "-")
        IN  FirstLooksLikeSuffix(parts) => base_name = parts[1]

\* C11 amended: the first segment is never tested and always kept; when it
\* matches the suffix pattern, the base name is just the first segment
\* exactly when no segment follows it or the second segment is at least 4
\* characters long and matches ^[a-z0-9]+$.
C11_FirstSegmentNeverTested ==
    base_calls >= 1 =>
        LET parts == split(pod_name, "-")
        IN  FirstLooksLikeSuffix(parts) =>
                /\ IsPrefix(parts[1], base_name)
                /\ base_name = parts[1] <=>
                      \/ Len(parts) = 1
                      \/ Len(parts[2]) >= 4 /\ LooksGenerated(parts[2])

\* C11 witness: "a7f8-x2-7f8c9d", whose first segment looks like a random
\* string, gave "a7f8-x2".
C11_Witness ==
    /\ base_calls >= 1
    /\ pod_name = A7f8X27f8c9d
    /\ Len(split(pod_name, "-")[1]) >= 4
    /\ LooksGenerated(split(pod_name, "-")[1])
    /\ base_name = SubSeq(A7f8X27f8c9d, 1, 7)

\* ------------------------------------------------------------------------
\* Properties of cleanup_duplicate_pods (specification SpecCleanup)
\* ------------------------------------------------------------------------

\* The marking loop has run and no deletion has been issued yet: the cluster
\* is still the one that was listed, and pod_groups and pods_to_delete are
\* final (no later step of the call assigns them).
JustMarked == cu_pc = "delete" /\ cu_del = 1

\* The places of the grouped entries: (item of the dict, index in its list).
Places ==
    UNION {{<<g, i>> : i \in 1..Len(pod_groups[g][2])} :
              g \in 1..Len(pod_groups)}

EntryAt(p) == pod_groups[p[1]][2][p[2]]

\* The groups as the claims define them: namespace and base name.
GroupIds ==
    {<<EntryAt(p).namespace, get_base_name(EntryAt(p).name)>> : p \in Places}

\* The members of a group, wherever the dict holds them.
Members(gid) ==
    {p \in Places :
        /\ EntryAt(p).namespace = gid[1]
        /\ get_base_name(EntryAt(p).name) = gid[2]}

MemberIPs(gid) == {EntryAt(p).node_ip : p \in Members(gid)}

MinAge(gid) == Least({EntryAt(p).age : p \in Members(gid)})

\* The indices of pods_to_delete that name a pod of the group.
MarksFrom(gid) ==
    {k \in 1..Len(pods_to_delete) :
        /\ pods_to_delete[k][1] = gid[1]
        /\ get_base_name(pods_to_delete[k][2]) = gid[2]}

\* The first pod of namespace ns, in the order the API lists the cluster,
\* whose name is in names.
FirstListed(ns, names) ==
    LET at == {i \in 1..Len(cluster) :
                  cluster[i].namespace = ns /\ cluster[i].name \in names}
    IN  cluster[Least(at)].name

\* C3: no pod is marked for deletion from a group (same namespace and base
\* name) of at most one member, nor from a group of more than one member
\* whose members have more than 2 distinct host IPs.
C3_NoMarkFromSmallOrSpreadGroup ==
    JustMarked =>
        \A k \in 1..Len(pods_to_delete) :
            LET gid == <<pods_to_delete[k][1],
                         get_base_name(pods_to_delete[k][2])>>
            IN  /\ Cardinality(Members(gid)) > 1
                /\ Cardinality(MemberIPs(gid)) <= 2

\* C3 witness: after the marking, with a group of three pods on three nodes
\* and a group of one pod, both unmarked, next to a marked duplicate.
C3_Witness ==
    /\ JustMarked
    /\ Len(pods_to_delete) = 1
    /\ \E gid \in GroupIds :
          /\ Cardinality(Members(gid)) = 3
          /\ Cardinality(MemberIPs(gid)) = 3
          /\ MarksFrom(gid) = {}
    /\ \E gid \in GroupIds :
          /\ Cardinality(Members(gid)) = 1
          /\ MarksFrom(gid) = {}

\* C4: every group with more than one member and at most 2 distinct host IPs
\* has exactly one member marked for deletion: a member of minimum age, and
\* among the members of minimum age the one that was listed first.
C4_MarksFirstYoungestOfDuplicates ==
    JustMarked =>
        \A gid \in GroupIds :
            (Cardinality(Members(gid)) > 1 /\ Cardinality(MemberIPs(gid)) <= 2)
            => /\ Cardinality(MarksFrom(gid)) = 1
               /\ LET k == CHOOSE j \in MarksFrom(gid) : TRUE
                      name == pods_to_delete[k][2]
                      youngest == {EntryAt(p).name : p \in
                                      {q \in Members(gid) :
                                          EntryAt(q).age = MinAge(gid)}}
                  IN  /\ name \in youngest
                      /\ name = FirstListed(gid[1], youngest)

\* C4 witness: a marked group in which two different pods tie for the
\* minimum age and a third member is older.
C4_Witness ==
    /\ JustMarked
    /\ \E gid \in GroupIds :
          /\ Cardinality(Members(gid)) = 3
          /\ Cardinality(MemberIPs(gid)) <= 2
          /\ Cardinality(MarksFrom(gid)) = 1
          /\ \E p, q, r \in Members(gid) :
                /\ EntryAt(p).name # EntryAt(q).name
                /\ EntryAt(p).age = MinAge(gid)
                /\ EntryAt(q).age = MinAge(gid)
                /\ EntryAt(r).age > MinAge(gid)

IsListCall(c) == c.op = "list_pod"
IsDeleteCall(c) == c.op = "delete_pod"

\* The pod listings and the delete calls of the log, in order.
ListCalls == SelectSeq(api_log, IsListCall)
DeleteCalls == SelectSeq(api_log, IsDeleteCall)

ClientLoaded ==
    \E k \in 1..Len(api_log) : api_log[k] = Call("load_config", "cleanup", TRUE)

\* How often the pod q of the cluster is held in pod_groups.
TimesGrouped(q) ==
    Cardinality({p \in Places :
        /\ EntryAt(p).namespace = q.namespace
        /\ EntryAt(p).name = q.name})

\* How many successful listings were made of the namespace ns.
TimesListed(ns) ==
    Cardinality({k \in 1..Len(ListCalls) :
        ListCalls[k].target = ns /\ ListCalls[k].ok})

\* C18: in a call of cleanup_duplicate_pods that loaded its client, every
\* entry of NAMESPACES is listed once, in order, whether or not listings
\* before it failed; after the listings a pod with start time and host IP is
\* grouped once for each successful listing of its namespace, so a failed
\* listing drops only what it would have listed; no pod is marked twice; and
\* the delete calls made are one for each marked pod, in order, whether or
\* not delete calls before failed, all of them made when the call returns.
C18_FailuresSkipOnlyTheirItem ==
    /\ ClientLoaded /\ cu_pc \in {"delete", "done"} =>
          /\ Len(ListCalls) = Len(namespaces)
          /\ \A k \in 1..Len(ListCalls) : ListCalls[k].target = namespaces[k]
    /\ JustMarked =>
          \A k \in 1..Len(cluster) :
              TimesGrouped(cluster[k]) =
                  IF cluster[k].start_time = NoTime \/ cluster[k].host_ip = None
                  THEN 0 ELSE TimesListed(cluster[k].namespace)
    /\ \A i, j \in 1..Len(pods_to_delete) :
          pods_to_delete[i] = pods_to_delete[j] => i = j
    /\ cu_pc \in {"delete", "done"} =>
          /\ Len(DeleteCalls) = cu_del - 1
          /\ \A k \in 1..Len(DeleteCalls) :
                DeleteCalls[k].target = pods_to_delete[k]
    /\ cu_pc = "done" => Len(DeleteCalls) = Len(pods_to_delete)

\* A call that returned after a failed first listing of n1, a second
\* listing of n1 that gave two duplicate groups, a failed delete for the
\* first marked pod and a delete for the second.
C18_Witness ==
    /\ cu_pc = "done"
    /\ Len(ListCalls) = 2
    /\ ~ListCalls[1].ok /\ ListCalls[2].ok
    /\ Len(pods_to_delete) = 2
    /\ Len(DeleteCalls) = 2
    /\ ~DeleteCalls[1].ok /\ DeleteCalls[2].ok

\* The pod has no recorded start time or no host IP.
Unplaced(q) == q.start_time = NoTime \/ q.host_ip = None

\* The pods of the cluster with start time and host IP that have the
\* namespace and base name gid, by position.
PlacedIn(gid) ==
    {k \in 1..Len(cluster) :
        /\ ~Unplaced(cluster[k])
        /\ cluster[k].namespace = gid[1]
        /\ get_base_name(cluster[k].name) = gid[2]}

\* The namespace and base name of every pod of the cluster.
ClusterGroupIds ==
    {<<cluster[k].namespace, get_base_name(cluster[k].name)>> :
        k \in 1..Len(cluster)}

\* C19: a pod of the cluster without start time or without host IP is in no
\* group, is not marked and gets no delete call; and in a namespace listed
\* once, a group has a marked pod exactly when its pods with start time and
\* host IP alone are more than one on at most 2 distinct host IPs.
C19_UnplacedPodsAreIgnored ==
    /\ \A k \in 1..Len(cluster) :
          Unplaced(cluster[k]) =>
              /\ TimesGrouped(cluster[k]) = 0
              /\ \A d \in 1..Len(pods_to_delete) :
                    pods_to_delete[d] #
                        <<cluster[k].namespace, cluster[k].name>>
              /\ \A d \in 1..Len(DeleteCalls) :
                    DeleteCalls[d].target #
                        <<cluster[k].namespace, cluster[k].name>>
    /\ JustMarked =>
          \A gid \in ClusterGroupIds :
              TimesListed(gid[1]) = 1 =>
                  (MarksFrom(gid) # {} <=>
                      /\ Cardinality(PlacedIn(gid)) > 1
                      /\ Cardinality({cluster[k].host_ip : k \in PlacedIn(gid)})
                            <= 2)

\* After the marking: a pod without start time on a third node shares the
\* name of two pods on two nodes, and one of the two was marked.
C19_Witness ==
    /\ JustMarked
    /\ Len(cluster) = 3
    /\ Len(pods_to_delete) = 1
    /\ \E k \in 1..3 :
          /\ cluster[k].start_time = NoTime
          /\ \A j \in (1..3) \ {k} :
                /\ ~Unplaced(cluster[j])
                /\ cluster[j].host_ip # cluster[k].host_ip
                /\ get_base_name(cluster[j].name) =
                      get_base_name(cluster[k].name)
    /\ Cardinality({cluster[k].host_ip : k \in 1..3}) = 3

\* The pods of the cluster with another name, the same namespace and the
\* same base name as the pod `name` of namespace ns.
Siblings(ns, name) ==
    {k \in 1..Len(cluster) :
        /\ cluster[k].namespace = ns
        /\ cluster[k].name # name
        /\ get_base_name(cluster[k].name) = get_base_name(name)}

NoRepeatedNamespace ==
    \A i, j \in 1..Len(namespaces) : namespaces[i] = namespaces[j] => i = j

\* C21: for any value of NAMESPACES, every pod marked for deletion has, in
\* the cluster that was listed, a pod of another name with its namespace and
\* base name.
C21_MarkedPodHasSibling ==
    JustMarked =>
        \A d \in 1..Len(pods_to_delete) :
            Siblings(pods_to_delete[d][1], pods_to_delete[d][2]) # {}

\* What the code ensures of C21: a marked pod has such a sibling when no
\* entry of NAMESPACES is repeated.
C21_HoldsWithoutRepeats ==
    JustMarked /\ NoRepeatedNamespace =>
        \A d \in 1..Len(pods_to_delete) :
            Siblings(pods_to_delete[d][1], pods_to_delete[d][2]) # {}

\* ------------------------------------------------------------------------
\* Properties of cleanup_duplicate_pods next to another actor (SpecRace)
\* ------------------------------------------------------------------------

\* C20: the pods to delete are those marked from the listed groups and do
\* not change while others remove pods during the deletion; no listing is
\* made after the marking; and a delete call is made for every marked pod in
\* turn, whatever is left of its group in the cluster.
C20_DeletesFromSnapshot ==
    /\ [](cu_pc \in {"delete", "done"} /\ ClientLoaded =>
             /\ pods_to_delete = MarkPods(pod_groups)
             /\ Len(ListCalls) = Len(namespaces)
             /\ Len(DeleteCalls) = cu_del - 1
             /\ \A k \in 1..Len(DeleteCalls) :
                   DeleteCalls[k].target = pods_to_delete[k]
             /\ cu_pc = "done" => Len(DeleteCalls) = Len(pods_to_delete))
    /\ [][cu_pc = "delete" =>
             /\ pods_to_delete' = pods_to_delete
             /\ pod_groups' = pod_groups
             /\ ListCalls' = ListCalls]_vars

\* The call has returned: the listing saw both pods of "svc" in n1, another
\* actor then removed the one that was not marked, the reconciler deleted
\* the one it had marked, and no pod of the group is left.
C20_Witness ==
    /\ cu_pc = "done"
    /\ Len(pod_groups) = 1
    /\ Len(pod_groups[1][2]) = 2
    /\ pod_groups[1][2][1].name # pod_groups[1][2][2].name
    /\ Len(removed) = 1
    /\ Len(DeleteCalls) = 1
    /\ DeleteCalls[1].ok
    /\ DeleteCalls[1].target # removed[1]
    /\ cluster = <<>>

\* ------------------------------------------------------------------------
\* Properties of a run of main (SpecRun)
\* ------------------------------------------------------------------------

Exited == run_pc = "exited"

StartLine == <<Script, "start">>
StopLine == <<Script, "stop">>

\* The command line is exactly one argument, "start" or "stop".
ValidCommandLine == argv \in {StartLine, StopLine}

\* A call of the operation is in the log, and it failed.
Failed(op) == \E k \in 1..Len(api_log) : api_log[k].op = op /\ ~api_log[k].ok

\* The servers whose name contains the configured pattern.
Matched == {i \in 1..Len(cloud) : Contains(cloud[i].name, PARTIAL_SERVER_NAME)}

ListedShutoff(i) == cloud[i].status \in {"SHUTOFF", "Shutoff"}

\* C5: a run that has exited has status 0 or 1, and the status is 1 exactly
\* when the command line is invalid or the cloud connect or the top-level
\* find-servers call failed; failed per-server calls and timeouts of the
\* polling loops leave it 0.
C5_ExitOneOnlyForArgumentsOrSetup ==
    Exited =>
        /\ exit_code \in {<<0>>, <<1>>}
        /\ exit_code = <<1>> <=>
              \/ ~ValidCommandLine
              \/ Failed("connect")
              \/ Failed("servers")

\* A start run that exited with 0 although the start call of its first
\* server failed and the wait for its second server timed out.
C5_Witness ==
    /\ Exited
    /\ exit_code = <<0>>
    /\ argv = StartLine
    /\ Len(turns) = 2
    /\ turns[1].starts = 1
    /\ turns[1].started = 0
    /\ Call("wait_for_server_status", servers[2], FALSE) = api_log[Len(api_log)]

\* C6 as stated: a run in which the cloud connect, the cluster client load
\* or the top-level find-servers call failed exits with status 1.
C6_AnySetupFailureIsFatal ==
    Exited /\ (Failed("connect") \/ Failed("load_config") \/ Failed("servers"))
        => exit_code = <<1>>

\* C6, amended: a failed cloud connect or top-level find-servers call is
\* logged, propagated and ends the run with status 1 at once; a failed
\* cluster client load is logged and the run goes on to exit with status 0.
C6_CloudFailureFatalClientLoadNot ==
    /\ Failed("connect") \/ Failed("servers") =>
          /\ Exited
          /\ exit_code = <<1>>
          /\ {"action_failed", "script_failed"} \subseteq messages
          /\ Failed("connect") => "connect_failed" \in messages
          /\ Failed("servers") => "find_failed" \in messages
    /\ Failed("load_config") =>
          /\ Call("load_config", "start", FALSE) \in
                {api_log[k] : k \in 1..Len(api_log)}
                => {"config_failed", "k8s_unavailable"} \subseteq messages
          /\ Exited => exit_code = <<0>>

\* A start run that went through its servers after the client load failed
\* and exited with 0.
C6_Witness ==
    /\ Exited
    /\ exit_code = <<0>>
    /\ turns # <<>>
    /\ \E k \in 1..Len(api_log) :
          api_log[k] = Call("load_config", "start", FALSE)

\* The calls to the cluster: the node list, the wait on the node reads, the
\* reconciler with its client load, pod lists and pod deletes.
IsClusterCall(c) ==
    \/ c.op \in {"list_node", "wait_for_node_ready", "cleanup_duplicate_pods",
                 "list_pod", "delete_pod"}
    \/ c.op = "load_config" /\ c.target = "cleanup"

ClientSetupFailed ==
    /\ argv = StartLine
    /\ \E k \in 1..Len(api_log) :
          api_log[k] = Call("load_config", "start", FALSE)

\* C7: in a start run whose cluster client setup failed, no call to the
\* cluster is made and no cluster step is entered; every finished turn, in
\* listing order, made one start call and waited for ACTIVE when the call
\* returned if its server was listed as shutoff, and made no call at all
\* and logged "already running" otherwise; and the run exits with 0 after a
\* turn for every matched server.
C7_StartOnlyWithoutClient ==
    ClientSetupFailed =>
        /\ \A k \in 1..Len(api_log) : ~IsClusterCall(api_log[k])
        /\ run_pc \notin {"get_ip", "find_node", "wait_node", "cleanup"}
        /\ cu_pc = "idle"
        /\ \A t \in 1..Len(turns) :
              /\ turns[t].id = servers[t]
              /\ turns[t].cleanups = 0
              /\ IF ListedShutoff(servers[t])
                 THEN turns[t].starts = 1 /\ turns[t].waits = turns[t].started
                 ELSE turns[t].starts = 0 /\ turns[t].waits = 0
        /\ run_pc = "start_loop" /\ turns # <<>>
              /\ ~ListedShutoff(turns[Len(turns)].id)
              => /\ api_log = SetupCalls(api_log)
                 /\ "already_running" \in messages
        /\ Exited =>
              /\ exit_code = <<0>>
              /\ {turns[t].id : t \in 1..Len(turns)} = Matched

\* A run without client that started and awaited its first server, found the
\* second one ACTIVE, and exited.
C7_Witness ==
    /\ ClientSetupFailed
    /\ Exited
    /\ Len(turns) = 2
    /\ ListedShutoff(servers[1])
    /\ turns[1].waits = 1
    /\ cloud[servers[2]].status = "ACTIVE"
    /\ "already_running" \in messages

\* C8: a stop run on a cloud where no server name contains the pattern makes
\* no call but the connect and the listing, and when these succeed it logs
\* that no server was found and exits with 0.
C8_StopWithoutMatchChangesNothing ==
    argv = StopLine /\ Matched = {} =>
        /\ \A k \in 1..Len(api_log) : api_log[k].op \in {"connect", "servers"}
        /\ turns = <<>>
        /\ run_pc \in {"main", "connect", "find_servers", "exited"}
        /\ Exited /\ ~Failed("connect") /\ ~Failed("servers") =>
              /\ exit_code = <<0>>
              /\ "no_servers" \in messages

\* A stop run that listed two servers, one of them ACTIVE, none matching,
\* and exited.
C8_Witness ==
    /\ argv = StopLine
    /\ Matched = {}
    /\ Len(cloud) = 2
    /\ \E i \in 1..Len(cloud) : cloud[i].status = "ACTIVE"
    /\ Exited
    /\ Len(api_log) = 2
    /\ "no_servers" \in messages

\* C9: a run whose command line is not exactly one argument equal to
\* "start" or "stop" makes no cloud or cluster call, sets up no client, and
\* exits with status 1 after printing the usage.
C9_InvalidCommandLineCallsNothing ==
    ~ValidCommandLine =>
        /\ api_log = <<>>
        /\ run_pc \in {"main", "exited"}
        /\ cu_pc = "idle"
        /\ v1 = FALSE
        /\ turns = <<>>
        /\ Exited => exit_code = <<1>> /\ "usage" \in messages

\* The run with the two arguments "stop" and "start" has exited.
C9_Witness ==
    /\ argv = <<Script, "stop", "start">>
    /\ Exited
    /\ exit_code = <<1>>

\* The calls in the log with the given operation and outcome, by position.
CallsOf(op, ok) ==
    {k \in 1..Len(api_log) : api_log[k].op = op /\ api_log[k].ok = ok}

\* A turn of the start loop has finished, with a client, and the log and the
\* messages are those of this turn.
StartTurnDone ==
    /\ argv = StartLine
    /\ v1
    /\ run_pc = "start_loop"
    /\ turns # <<>>

LastTurn == turns[Len(turns)]

\* C12: after the turn of a start run with a client for a server listed as
\* shutoff, the reconciler was called once if the wait for ACTIVE returned
\* True and then the fixed IP was not resolved, or no node was found for it,
\* or the wait for the node returned True, and it was not called otherwise:
\* not after a timeout of the wait for ACTIVE or of the wait for the node.
\* At any time, a reconciler call in a turn where the node was awaited comes
\* after the start call, the wait for ACTIVE and the wait for the node, each
\* successful and in this order.
C12_ReconcilerAfterStartedServer ==
    /\ StartTurnDone /\ ListedShutoff(LastTurn.id) =>
          /\ LastTurn.starts = 1
          /\ LastTurn.cleanups \in {0, 1}
          /\ LastTurn.cleanups = 1 <=>
                /\ CallsOf("wait_for_server_status", TRUE) # {}
                /\ \/ "no_ip" \in messages
                   \/ "node_not_found" \in messages
                   \/ CallsOf("wait_for_node_ready", TRUE) # {}
          /\ CallsOf("wait_for_server_status", FALSE) # {}
                => LastTurn.cleanups = 0
          /\ CallsOf("wait_for_node_ready", FALSE) # {}
                => LastTurn.cleanups = 0
    /\ argv = StartLine =>
          \A c \in CallsOf("cleanup_duplicate_pods", TRUE) :
              (\E w \in 1..Len(api_log) :
                   api_log[w].op = "wait_for_node_ready") =>
                  \E st \in CallsOf("start_server", TRUE),
                     a \in CallsOf("wait_for_server_status", TRUE),
                     r \in CallsOf("wait_for_node_ready", TRUE) :
                      st < a /\ a < r /\ r < c

\* A finished turn for a shutoff server that was started, became ACTIVE, had
\* its node found and Ready, and then the reconciler deleted a pod.
C12_Witness ==
    /\ StartTurnDone
    /\ ListedShutoff(LastTurn.id)
    /\ LastTurn.cleanups = 1
    /\ CallsOf("wait_for_node_ready", TRUE) # {}
    /\ CallsOf("delete_pod", TRUE) # {}

\* C13: in a start run with a client, every finished turn for a server not
\* listed as shutoff made no start call and called the reconciler once; the
\* turns follow the matched servers in listing order, and the run ends after
\* a turn for each of them.
C13_RunningServerReconciledOnce ==
    argv = StartLine /\ v1 =>
        /\ \A t \in 1..Len(turns) :
              /\ turns[t].id = servers[t]
              /\ ~ListedShutoff(turns[t].id) =>
                    /\ turns[t].starts = 0
                    /\ turns[t].waits = 0
                    /\ turns[t].cleanups = 1
        /\ run_pc = "cleanup" /\ ~ListedShutoff(servers[srv_i]) =>
              /\ CallsOf("start_server", TRUE) = {}
              /\ CallsOf("start_server", FALSE) = {}
              /\ Cardinality(CallsOf("cleanup_duplicate_pods", TRUE)) = 1
        /\ Exited => {turns[t].id : t \in 1..Len(turns)} = Matched

\* A start run with a client that found two matched servers ACTIVE and has
\* exited.
C13_Witness ==
    /\ argv = StartLine
    /\ v1
    /\ Exited
    /\ Len(turns) = 2
    /\ \A t \in 1..2 : cloud[turns[t].id].status = "ACTIVE"
    /\ turns[2].cleanups = 1

\* The turns made so far follow the matched servers in listing order.
TurnsInListingOrder ==
    /\ Len(turns) <= Len(servers)
    /\ \A t \in 1..Len(turns) : turns[t].id = servers[t]

\* C14: a start run that found servers ends only after a turn for every
\* matched server, in listing order, whatever was raised or failed in the
\* turns before, and then exits with 0; each turn made the start call for a
\* server listed as shutoff and, with a client, called the reconciler for
\* one that is not.
C14_StartBatchGoesOn ==
    argv = StartLine =>
        /\ TurnsInListingOrder
        /\ \A t \in 1..Len(turns) :
              IF ListedShutoff(turns[t].id)
              THEN turns[t].starts = 1
              ELSE turns[t].cleanups = IF v1 THEN 1 ELSE 0
        /\ Exited /\ ~Failed("connect") /\ ~Failed("servers") =>
              /\ exit_code = <<0>>
              /\ Len(turns) = Len(servers)
              /\ {servers[t] : t \in 1..Len(servers)} = Matched

\* A start run whose first turn ended in the handler of a raised start call
\* and whose second turn started its server and ended in the handler of an
\* exception out of the reconciler, and which has exited.
C14_Witness ==
    /\ argv = StartLine
    /\ Exited
    /\ Len(turns) = 2
    /\ turns[1].caught /\ turns[1].started = 0
    /\ turns[2].caught /\ turns[2].started = 1 /\ turns[2].cleanups = 1

\* C15: a stop run that found servers makes a turn for every matched server
\* in listing order and ends only after the last one; the turn makes one
\* stop call for a server whose listed status is not "shutoff" in any case
\* of letters, and none for one whose status is, whether or not the stop
\* calls of the turns before failed; no turn makes another call.
C15_StopEveryRunningServer ==
    argv = StopLine =>
        /\ TurnsInListingOrder
        /\ \A t \in 1..Len(turns) :
              /\ turns[t].stops = IF ListedShutoff(turns[t].id) THEN 0 ELSE 1
              /\ turns[t].starts = 0
              /\ turns[t].waits = 0
              /\ turns[t].cleanups = 0
        /\ Exited /\ ~Failed("connect") /\ ~Failed("servers") =>
              /\ Len(turns) = Len(servers)
              /\ {servers[t] : t \in 1..Len(servers)} = Matched

\* A stop run whose first stop call failed, whose second server, listed as
\* "Shutoff", got none, and which has exited.
C15_Witness ==
    /\ argv = StopLine
    /\ Exited
    /\ Len(turns) = 2
    /\ turns[1].stops = 1 /\ turns[1].stopped = 0
    /\ cloud[turns[2].id].status = "Shutoff" /\ turns[2].stops = 0

\* The poll returned the server with the status "active" in some case of
\* letters.
GaveActive(p) == p.polled /\ ~p.raises /\ p.status \in {"ACTIVE", "Active"}

LastCall(log) == log[Len(log)]

\* C16: in wait_for_server_status with the defaults, the time waited is 10
\* seconds for each poll made so far and no more than 30 polls are made; a
\* poll that raises or gives another status adds one interval and the wait
\* goes on; the wait ends with True on a poll that gives the desired status,
\* and with False, without raising, only after 30 polls that did not; and
\* the wait always ends.
C16_ServerWaitBounded ==
    /\ [](run_pc = "wait_active" =>
             /\ waited = polls * 10
             /\ polls <= 30
             /\ polls > 0 => ~GaveActive(last_poll))
    /\ [][run_pc = "wait_active" =>
             \/ /\ run_pc' = "wait_active"
                /\ polls < 30
                /\ ~GaveActive(last_poll')
                /\ polls' = polls + 1
                /\ waited' = waited + 10
                /\ api_log' = api_log
             \/ /\ run_pc' \in {"get_ip", "start_loop"}
                /\ polls < 30
                /\ GaveActive(last_poll')
                /\ LastCall(api_log') =
                      Call("wait_for_server_status", servers[srv_i], TRUE)
                /\ exit_code' = exit_code
             \/ /\ run_pc' = "start_loop"
                /\ polls = 30
                /\ LastCall(api_log') =
                      Call("wait_for_server_status", servers[srv_i], FALSE)
                /\ exit_code' = exit_code]_vars
    /\ (run_pc = "wait_active") ~> (run_pc # "wait_active")

\* The 30th poll of a wait raised, after 29 polls that did not give the
\* desired status.
C16_Witness ==
    /\ run_pc = "wait_active"
    /\ polls = 30
    /\ waited = 300
    /\ last_poll.raises

\* The read returned a node with a condition of type "Ready" and status
\* "True".
FoundReady(p) ==
    /\ p.polled
    /\ ~p.raises
    /\ \E k \in 1..Len(p.conditions) :
          p.conditions[k].type = "Ready" /\ p.conditions[k].status = "True"

\* C17: in wait_for_node_ready with the defaults, the time waited is 10
\* seconds for each check made so far and no more than 60 checks are made; a
\* check whose read raised, or gave no "Ready" condition, or one with another
\* status, adds one interval and the wait goes on; the wait ends with True on
\* a check that found the node Ready, and with False, without raising, only
\* after 60 checks that did not; and the wait always ends.
C17_NodeWaitBounded ==
    /\ [](run_pc = "wait_node" =>
             /\ waited = polls * 10
             /\ polls <= 60
             /\ polls > 0 => ~FoundReady(last_poll))
    /\ [][run_pc = "wait_node" =>
             \/ /\ run_pc' = "wait_node"
                /\ polls < 60
                /\ ~FoundReady(last_poll')
                /\ polls' = polls + 1
                /\ waited' = waited + 10
                /\ api_log' = api_log
             \/ /\ run_pc' = "cleanup"
                /\ polls < 60
                /\ FoundReady(last_poll')
                /\ api_log'[Len(api_log') - 1] =
                      Call("wait_for_node_ready", node_name, TRUE)
                /\ exit_code' = exit_code
             \/ /\ run_pc' = "start_loop"
                /\ polls = 60
                /\ LastCall(api_log') =
                      Call("wait_for_node_ready", node_name, FALSE)
                /\ exit_code' = exit_code]_vars
    /\ (run_pc = "wait_node") ~> (run_pc # "wait_node")

\* The 60th check of a wait read a node without a "Ready" condition, after
\* 59 checks that did not find the node ready.
C17_Witness ==
    /\ run_pc = "wait_node"
    /\ polls = 60
    /\ waited = 600
    /\ ~last_poll.raises
    /\ \A k \in 1..Len(last_poll.conditions) :
          last_poll.conditions[k].type # "Ready"

\* ------------------------------------------------------------------------
\* Properties of the reconciler called again and again (SpecStartMany)
\* ------------------------------------------------------------------------

\* The pod has a node and a start time: the reconciler does not skip it.
Eligible(pod) == pod.start_time # NoTime /\ pod.host_ip # None

\* The group of a pod: its namespace and its base name.
PodGroup(ns, name) == <<ns, get_base_name(name)>>

\* The groups that have an eligible pod in the cluster c.
EligibleGroups(c) ==
    {PodGroup(c[k].namespace, c[k].name) :
        k \in {i \in 1..Len(c) : Eligible(c[i])}}

\* The successful delete calls of the current invocation.
Deleted ==
    {k \in 1..Len(api_log) :
        api_log[k].op = "delete_pod" /\ api_log[k].ok}

\* C22: with no repeated namespace and nobody else changing the pods, no
\* step of a run takes the last eligible pod of a group away, so that every
\* group with an eligible pod keeps one after any number of invocations; and
\* one invocation marks and removes at most one pod of a group.
C22_GroupsKeepAPod ==
    /\ [](NoRepeatedNamespace =>
             /\ \A d, e \in 1..Len(pods_to_delete) :
                   PodGroup(pods_to_delete[d][1], pods_to_delete[d][2])
                     = PodGroup(pods_to_delete[e][1], pods_to_delete[e][2])
                       => d = e
             /\ \A k, l \in Deleted :
                   PodGroup(api_log[k].target[1], api_log[k].target[2])
                     = PodGroup(api_log[l].target[1], api_log[l].target[2])
                       => k = l)
    /\ [][NoRepeatedNamespace =>
             /\ EligibleGroups(cluster) \subseteq EligibleGroups(cluster')
             /\ Len(cluster') >= Len(cluster) - 1]_vars

\* Two invocations of one start run have each removed one pod of the group of
\* three, and its oldest pod is left.
C22_Witness ==
    /\ Exited
    /\ Len(turns) = 2
    /\ turns[1].cleanups = 1
    /\ turns[2].cleanups = 1
    /\ cluster = <<Pod(N1, PodName(Svc, 4), <<1>>, "10.0.0.1")>>

\* ------------------------------------------------------------------------
\* The calls of a stop run and of a start run (SpecRun)
\* ------------------------------------------------------------------------

\* The start calls of the current turn.
StartCalls == {k \in 1..Len(api_log) : api_log[k].op = "start_server"}

\* C23: a stop run makes no start call, no client setup and no cluster call,
\* and leaves the client, the reconciler and the pods alone; a start run
\* makes no stop call, and its start calls are for servers listed as shutoff,
\* one per turn at most, in the turn of that server, and there is one turn
\* per found server.
C23_RunsKeepToTheirAction ==
    /\ argv = StopLine =>
          /\ \A k \in 1..Len(api_log) :
                /\ api_log[k].op \notin {"start_server", "load_config",
                                        "wait_for_server_status"}
                /\ ~IsClusterCall(api_log[k])
          /\ \A t \in 1..Len(turns) :
                turns[t].starts = 0 /\ turns[t].waits = 0
                    /\ turns[t].cleanups = 0
          /\ ~v1
          /\ cu_pc = "idle"
          /\ cluster = ScenarioTwoNodes
    /\ argv = StartLine =>
          /\ \A k \in 1..Len(api_log) : api_log[k].op # "stop_server"
          /\ \A t \in 1..Len(turns) :
                /\ turns[t].stops = 0
                /\ turns[t].starts <= 1
                /\ turns[t].starts = 1 => ListedShutoff(turns[t].id)
          /\ \A i, j \in 1..Len(servers) : servers[i] = servers[j] => i = j
          /\ Len(turns) <= Len(servers)
          /\ \A t \in 1..Len(turns) : turns[t].id = servers[t]
          /\ Cardinality(StartCalls) <= 1
          /\ \A k \in StartCalls :
                /\ ListedShutoff(api_log[k].target)
                /\ \/ /\ turns # <<>>
                      /\ api_log[k].target = servers[Len(turns)]
                   \/ /\ Len(turns) < Len(servers)
                      /\ api_log[k].target = servers[Len(turns) + 1]

\* A start run of two turns has exited: the start call for the server listed
\* as shutoff, none for the running one, which was reconciled.
C23_Witness ==
    /\ Exited
    /\ argv = StartLine
    /\ Len(turns) = 2
    /\ ListedShutoff(turns[1].id)
    /\ turns[1].starts = 1
    /\ ~ListedShutoff(turns[2].id)
    /\ turns[2].starts = 0
    /\ turns[2].cleanups = 1

=========================================================================
